---- MODULE Spec2Model ----
(***************************************************************************)
(* A model of dino.py: the Dino class (a wrapper around a selenium driver   *)
(* that plays the T-Rex runner) and the demonstration program at the end    *)
(* of the file.                                                             *)
(*                                                                          *)
(* A method of Dino is an operator from a machine record to a machine       *)
(* record.  The machine holds the Dino object (dino), the browser and the   *)
(* page it shows (web), the calls the method made on the driver (trace),    *)
(* the key events that reached the browser (keys), the exception in flight  *)
(* (exc) and the value returned (ret).  Two inputs of a call are carried in *)
(* the machine: fuel, the number of driver calls the browser still answers  *)
(* before it goes away, and intr, the sleep (first, second, ...) during     *)
(* which a keyboard interrupt arrives, 0 for none.                          *)
(***************************************************************************)
EXTENDS Integers, Sequences, FiniteSets, TLC

VARIABLES ctor, dino, web, trace, keys, last, calls, pc, iter, ends, choices, twin

vars == <<ctor, dino, web, trace, keys, last, calls, pc, iter, ends, choices, twin>>

---------------------------------------------------------------------------
\* Bounds of the model.

\* Method calls made on one Dino object.
MaxCalls == 3

\* Iterations of the demonstration loop.
MaxIter == 3

\* Driver calls the browser may answer during one method before it goes away;
\* start makes eight, so the largest value lets every method run to its end.
MaxFuel == 8

---------------------------------------------------------------------------
\* Program constants.

gameURL == "chrome://dino/"

canvasID == "runner-canvas"

\* Runner.spriteDefinition.LDPI.PTERODACTYL.x of the game page, read by _setup.
PterodactylX == 134

\* Delays in milliseconds: start's default, duck's default, the loop's pause.
StartDelay == 3000

DuckDelay == 500

LoopDelay == 600

\* The key code registered for DUCK besides the arrow (40).
ShiftCode == 16

ArrowCode == 40

\* Copies of dino.jump in the list the loop chooses from.
JumpWeight == 10

---------------------------------------------------------------------------
\* Python values.

None == <<>>

Some(x) == <<x>>

RetNone == [t |-> "None", i |-> 0, s |-> "", q |-> <<>>]

RetInt(n) == [t |-> "int", i |-> n, s |-> "", q |-> <<>>]

RetStr(str) == [t |-> "str", i |-> 0, s |-> str, q |-> <<>>]

RetBool(b) == [t |-> "bool", i |-> IF b THEN 1 ELSE 0, s |-> "", q |-> <<>>]

RetList(l) == [t |-> "list", i |-> 0, s |-> "", q |-> l]

\* A call made by a method: its kind and argument, the driver it was made
\* on (0 for time.sleep), the length of a sleep, and whether it was answered.
Event(k, a, d, n, ok) == [k |-> k, a |-> a, d |-> d, n |-> n, ok |-> ok]

Raise(m, e) == [m EXCEPT !.exc = e]

Running(m) == m.exc = "none"

\* Step n was taken from m without raising.
Did(m, n) == Running(m) /\ Running(n)

---------------------------------------------------------------------------
\* The game page.  Its state is the page's own; the program only reads it.

Digit == [c \in {"0", "1", "2", "3", "4", "5", "6", "7", "8", "9"} |->
            CASE c = "0" -> 0 [] c = "1" -> 1 [] c = "2" -> 2 [] c = "3" -> 3
              [] c = "4" -> 4 [] c = "5" -> 5 [] c = "6" -> 6 [] c = "7" -> 7
              [] c = "8" -> 8 [] c = "9" -> 9]

Game(sp, dg, cr, pl) == [speed |-> sp, digits |-> dg, crashed |-> cr, playing |-> pl]

\* The page as loaded: the distance meter has no digits yet.
FreshGame == Game(6, <<>>, FALSE, FALSE)

GameStates ==
    { FreshGame,
      Game(6, <<"0", "0", "0", "4", "2">>, FALSE, TRUE),
      Game(13, <<"0", "1", "3", "3", "7">>, TRUE, FALSE),
      Game(0, <<"0", "0", "0", "0", "0">>, FALSE, FALSE) }

NoBrowser ==
    [browser |-> "none", launched |-> 0, page |-> "blank", canvasId |-> "",
     duckKeys |-> {ArrowCode}, game |-> FreshGame]

OpenBrowser(page) == [NoBrowser EXCEPT !.browser = "open", !.page = page]

---------------------------------------------------------------------------
\* The selenium calls.

\* A method of self._driver: it raises on a missing driver, and when the
\* browser is closed or goes away as the call is made.
DriverCall(m, k, a) ==
    IF ~Running(m) THEN m
    ELSE IF m.dino._driver = None THEN Raise(m, "AttributeError")
    ELSE IF m.web.browser # "open"
        THEN [m EXCEPT !.trace = Append(@, Event(k, a, m.dino._driver[1], 0, FALSE)),
                       !.exc = "WebDriverException"]
    ELSE IF m.fuel = 0
        THEN [m EXCEPT !.trace = Append(@, Event(k, a, m.dino._driver[1], 0, FALSE)),
                       !.web.browser = "closed",
                       !.exc = "WebDriverException"]
    ELSE [m EXCEPT !.fuel = @ - 1, !.trace = Append(@, Event(k, a, m.dino._driver[1], 0, TRUE))]

\* webdriver.Chrome(driverPath, chrome_options=options)
Chrome(m, muteArg) ==
    [m EXCEPT !.web = [OpenBrowser("blank") EXCEPT !.launched = m.web.launched + 1],
              !.trace = Append(@, Event("launch", muteArg, m.web.launched + 1, 0, TRUE)),
              !.dino._driver = Some(m.web.launched + 1)]

\* driver.get(url)
Get(m, url) ==
    LET n == DriverCall(m, "get", url)
    IN  IF Did(m, n)
        THEN [n EXCEPT !.web.page = url, !.web.canvasId = "",
                       !.web.duckKeys = {ArrowCode}, !.web.game = FreshGame]
        ELSE n

\* driver.execute_script(script): a script naming the game raises on a page
\* that does not hold it.
ExecuteScript(m, script) ==
    LET n == DriverCall(m, "script", script)
    IN  IF Did(m, n) /\ n.web.page = "blank"
        THEN Raise(n, "JavascriptException")
        ELSE n

\* driver.find_element(by, value)
FindElement(m, value) ==
    LET n == DriverCall(m, "find", value)
    IN  IF Did(m, n) /\ value = canvasID /\ n.web.canvasId # canvasID
        THEN Raise(n, "NoSuchElementException")
        ELSE n

\* element.send_keys(key) on an element found earlier (None: no such attribute).
SendKeys(m, element, key) ==
    IF ~Running(m) THEN m
    ELSE IF element = None THEN Raise(m, "AttributeError")
    ELSE LET n == DriverCall(m, "send_keys", key)
         IN  IF Did(m, n)
             THEN [n EXCEPT !.keys = Append(@, [k |-> "send_keys", a |-> key])]
             ELSE n

\* ActionChains(driver).key_down(key).perform() and key_up
KeyAction(m, k, key) ==
    LET n == DriverCall(m, k, key)
    IN  IF Did(m, n)
        THEN [n EXCEPT !.keys = Append(@, [k |-> k, a |-> key])]
        ELSE n

\* driver.close()
Close(m) ==
    LET n == DriverCall(m, "close", "")
    IN  IF Did(m, n) THEN [n EXCEPT !.web.browser = "closed"] ELSE n

\* time.sleep(ms): a negative length is a ValueError; a keyboard interrupt
\* may arrive while it waits.
Sleep(m, ms) ==
    IF ~Running(m) THEN m
    ELSE IF ms < 0 THEN Raise(m, "ValueError")
    ELSE IF m.intr = 1 THEN [m EXCEPT !.intr = 0, !.exc = "KeyboardInterrupt"]
    ELSE [m EXCEPT !.intr = IF @ > 1 THEN @ - 1 ELSE @,
                   !.trace = Append(@, Event("sleep", "", 0, ms, TRUE))]

Return(m, v) == IF Running(m) THEN [m EXCEPT !.ret = v] ELSE m

---------------------------------------------------------------------------
\* class Dino

\* The scripts _setup runs and the properties the accessors read.
CanvasIdScript == "document.getElementsByClassName('runner-canvas')[0].id = 'runner-canvas'"

DuckKeysScript == "Runner.keycodes['DUCK'] = {'40' : 1, '16' : 1};"

PterodactylProp == "Runner.spriteDefinition.LDPI.PTERODACTYL.x"

ConfigProp == "Runner.config"

CrashedProp == "Runner.instance_.crashed"

PlayingProp == "Runner.instance_.playing"

DigitsProp == "Runner.instance_.distanceMeter.digits"

SpeedProp == "Runner.instance_.currentSpeed"

Properties ==
    {PterodactylProp, ConfigProp, CrashedProp, PlayingProp, DigitsProp, SpeedProp}

\* What the page answers to "return <property>".
PropertyValue(w, property) ==
    CASE property = PterodactylProp -> RetInt(PterodactylX)
      [] property = ConfigProp -> RetStr("Runner.config")
      [] property = CrashedProp -> RetBool(w.game.crashed)
      [] property = PlayingProp -> RetBool(w.game.playing)
      [] property = DigitsProp -> RetList(w.game.digits)
      [] property = SpeedProp -> RetInt(w.game.speed)
      [] OTHER -> RetNone

__init__(driver, url, mute) ==
    [_driver |-> driver,
     url |-> IF url = None THEN gameURL ELSE url[1],
     _mute |-> mute,
     pterodactylx |-> None, gameConfig |-> None, body |-> None, canvas |-> None]

getProperty(m, property) ==
    LET n == ExecuteScript(m, "return " \o property)
    IN  Return(n, PropertyValue(n.web, property))

\* Steps in sequence: step is applied to the machine m has produced.
Only(S) == CHOOSE x \in S : TRUE

Then(m, step(_)) == Only({step(x) : x \in {m}})

\* A launch on every _setup.
LoadDriver_Always(m) == Chrome(m, IF m.dino._mute = TRUE THEN "--mute-audio" ELSE "")

\* The launch of _setup: only when no driver is held.
LoadDriver(m) ==
    IF m.dino._driver = None
    THEN Chrome(m, IF m.dino._mute = TRUE THEN "--mute-audio" ELSE "")
    ELSE m

\* The default page whatever the url.
Navigate_Default(m) == Get(m, gameURL)

Navigate(m) == Get(m, m.dino.url)

AssignCanvasId(m) ==
    LET n == ExecuteScript(m, CanvasIdScript)
    IN  IF Did(m, n) THEN [n EXCEPT !.web.canvasId = canvasID] ELSE n

RegisterDuckKey(m) ==
    LET n == ExecuteScript(m, DuckKeysScript)
    IN  IF Did(m, n) THEN [n EXCEPT !.web.duckKeys = {ArrowCode, ShiftCode}] ELSE n

ReadPterodactyl(m) ==
    LET n == getProperty(m, PterodactylProp)
    IN  IF Did(m, n) THEN [n EXCEPT !.dino.pterodactylx = Some(n.ret.i)] ELSE n

ReadConfig(m) ==
    LET n == getProperty(m, ConfigProp)
    IN  IF Did(m, n) THEN [n EXCEPT !.dino.gameConfig = Some(n.ret.s)] ELSE n

FindBody(m) ==
    LET n == FindElement(m, "body")
    IN  IF Did(m, n) THEN [n EXCEPT !.dino.body = Some("body")] ELSE n

FindCanvas(m) ==
    LET n == FindElement(m, canvasID)
    IN  IF Did(m, n) THEN [n EXCEPT !.dino.canvas = Some(canvasID)] ELSE n

_setup(m) ==
    Then(Then(Then(Then(Then(Then(Then(Then(m,
        LoadDriver), Navigate), AssignCanvasId), RegisterDuckKey),
        ReadPterodactyl), ReadConfig), FindBody), FindCanvas)

\* jump looking the body up again.
jump_Refind(m) ==
    Then(Then(m, FindBody), LAMBDA x : Return(SendKeys(x, x.dino.body, "SPACE"), RetNone))

jump(m) == Return(SendKeys(m, m.dino.body, "SPACE"), RetNone)

\* What start returns.
StartResult == RetStr("self")

start(m, delay) ==
    LET wait(x) == Sleep(x, IF delay = None THEN StartDelay ELSE delay[1])
        result(x) == Return(x, StartResult)
    IN  Then(Then(Then(Then(m, _setup), jump), wait), result)

speed(m) ==
    LET n == getProperty(m, SpeedProp)
    IN  IF Did(m, n) THEN Return(n, RetInt(n.ret.i)) ELSE n

\* The delay duck uses when none is given: the quotient is computed and then
\* replaced by .5
DefaultDelay(m) ==
    IF m.dino.pterodactylx = None THEN Raise(m, "AttributeError")
    ELSE LET divide(x) == IF ~Running(x) THEN x
                          ELSE IF x.ret.i = 0 THEN Raise(x, "ZeroDivisionError")
                          ELSE Return(x, RetInt(DuckDelay))
         IN  Then(Then(m, speed), divide)

duck(m, delay) ==
    LET given(x) == IF delay = None THEN DefaultDelay(x) ELSE Return(x, RetInt(delay[1]))
        down(x) == KeyAction(x, "key_down", "SHIFT")
        wait(x) == Sleep(x, x.ret.i)
        up(x) == KeyAction(x, "key_up", "SHIFT")
        result(x) == Return(x, RetNone)
    IN  Then(Then(Then(Then(Then(m, given), down), wait), up), result)

cancelJump(m) == Return(SendKeys(m, m.dino.body, "ARROW_DOWN"), RetNone)

pause(m) == Return(ExecuteScript(m, "return Runner.instance_.stop()"), RetNone)

resume(m) == Return(ExecuteScript(m, "return Runner.instance_.play()"), RetNone)

\* end that only swallows.
end_NoClose(m) == [m EXCEPT !.exc = "none", !.ret = RetNone]

\* end without the try.
end_NoTry(m) == Return(Close(m), RetNone)

\* try: self._driver.close()  except: pass
end(m) == [Close(m) EXCEPT !.exc = "none", !.ret = RetNone]

crashed(m) == getProperty(m, CrashedProp)

playing(m) == getProperty(m, PlayingProp)

\* ''.join(score_array): the elements, each one character, in order.
RECURSIVE Join(_)
Join(strs) == IF strs = <<>> THEN <<>> ELSE <<Head(strs)>> \o Join(Tail(strs))

\* int(s) of a string of characters: None when int raises ValueError.
RECURSIVE IntOf(_, _)
IntOf(chars, acc) ==
    IF chars = <<>> THEN acc
    ELSE IntOf(Tail(chars), 10 * acc + Digit[Head(chars)])

int(chars) ==
    IF chars = <<>> \/ \E i \in DOMAIN chars : chars[i] \notin DOMAIN Digit
    THEN None
    ELSE Some(IntOf(chars, 0))

score(m) ==
    LET parse(x) == IF ~Running(x) THEN x
                    ELSE LET v == int(Join(x.ret.q))
                         IN  IF v = None THEN Raise(x, "ValueError")
                             ELSE Return(x, RetInt(v[1]))
    IN  Then(Then(m, LAMBDA x : getProperty(x, DigitsProp)), parse)

image(m) == Return(ExecuteScript(m, "return canvasRunner.toDataURL().substring(22)"), RetStr("png"))

obstacles(m) == Return(ExecuteScript(m, "return obst"), RetStr("obstacles"))

tRex(m) == Return(ExecuteScript(m, "return trex"), RetStr("trex"))

---------------------------------------------------------------------------
\* Calls on one Dino object, in any order (specification Spec).

AltURL == "http://localhost:8000/t-rex-runner/"

\* delay arguments: omitted, negative, positive (milliseconds).
Delays == {None, Some(-1000), Some(250)}

Machine(f, i) ==
    [dino |-> dino, web |-> web, trace |-> <<>>, keys |-> keys,
     exc |-> "none", ret |-> RetNone, fuel |-> f, intr |-> i]

Commit(op, delay, n) ==
    /\ dino' = n.dino
    /\ web' = n.web
    /\ trace' = n.trace
    /\ keys' = n.keys
    /\ last' = [op |-> op, delay |-> delay, exc |-> n.exc, ret |-> n.ret, at |-> ""]
    /\ calls' = calls + 1
    /\ UNCHANGED <<ctor, pc, iter, ends, choices, twin>>

CanCall == pc = "api" /\ calls < MaxCalls

NoCall == [op |-> "", delay |-> None, exc |-> "none", ret |-> RetNone, at |-> ""]

Init ==
    \E supplied \in BOOLEAN, url \in {None, Some(AltURL)}, mute \in BOOLEAN,
       page \in {"blank", gameURL} :
        \* mute is read only by a launch, the page only with a driver supplied
        /\ supplied => mute
        /\ ~supplied => page = "blank"
        /\ ctor = [driver |-> IF supplied THEN Some(0) ELSE None,
                   url |-> url, mute |-> mute]
        /\ dino = __init__(ctor.driver, url, mute)
        /\ web = IF supplied THEN OpenBrowser(page) ELSE NoBrowser
        /\ trace = <<>>
        /\ keys = <<>>
        /\ last = NoCall
        /\ calls = 0
        /\ pc = "api"
        /\ iter = 0
        /\ ends = 0
        /\ choices = <<>>
        /\ twin = None

CallStart ==
    /\ CanCall
    /\ \E f \in 0..MaxFuel, i \in 0..1, d \in Delays :
          \E n \in {start(Machine(f, i), d)} : Commit("start", d, n)

CallJump == CanCall /\ \E f \in 0..1 : \E n \in {jump(Machine(f, 0))} : Commit("jump", None, n)

CallDuck ==
    /\ CanCall
    /\ \E f \in 0..3, i \in 0..1, d \in Delays :
          \E n \in {duck(Machine(f, i), d)} : Commit("duck", d, n)

CallCancelJump ==
    CanCall /\ \E f \in 0..1 : \E n \in {cancelJump(Machine(f, 0))} : Commit("cancelJump", None, n)

CallPause == CanCall /\ \E f \in 0..1 : \E n \in {pause(Machine(f, 0))} : Commit("pause", None, n)

CallResume == CanCall /\ \E f \in 0..1 : \E n \in {resume(Machine(f, 0))} : Commit("resume", None, n)

CallEnd == CanCall /\ \E f \in 0..1 : \E n \in {end(Machine(f, 0))} : Commit("end", None, n)

CallGetProperty ==
    /\ CanCall
    /\ \E f \in 0..1, p \in Properties :
          \E n \in {getProperty(Machine(f, 0), p)} : Commit("getProperty", None, n)

CallCrashed == CanCall /\ \E f \in 0..1 : \E n \in {crashed(Machine(f, 0))} : Commit("crashed", None, n)

CallPlaying == CanCall /\ \E f \in 0..1 : \E n \in {playing(Machine(f, 0))} : Commit("playing", None, n)

CallScore == CanCall /\ \E f \in 0..1 : \E n \in {score(Machine(f, 0))} : Commit("score", None, n)

CallSpeed == CanCall /\ \E f \in 0..1 : \E n \in {speed(Machine(f, 0))} : Commit("speed", None, n)

CallImage == CanCall /\ \E f \in 0..1 : \E n \in {image(Machine(f, 0))} : Commit("image", None, n)

CallObstacles ==
    CanCall /\ \E f \in 0..1 : \E n \in {obstacles(Machine(f, 0))} : Commit("obstacles", None, n)

CallTRex == CanCall /\ \E f \in 0..1 : \E n \in {tRex(Machine(f, 0))} : Commit("tRex", None, n)

\* The page's own game loop moves the game on between two calls.
GameUpdate ==
    /\ web.browser = "open"
    /\ web.page # "blank"
    /\ \E g \in GameStates \ {web.game} : web' = [web EXCEPT !.game = g]
    /\ UNCHANGED <<ctor, dino, trace, keys, last, calls, pc, iter, ends, choices, twin>>

Next ==
    \/ CallStart
    \/ CallJump
    \/ CallDuck
    \/ CallCancelJump
    \/ CallPause
    \/ CallResume
    \/ CallEnd
    \/ CallGetProperty
    \/ CallCrashed
    \/ CallPlaying
    \/ CallScore
    \/ CallSpeed
    \/ CallImage
    \/ CallObstacles
    \/ CallTRex
    \/ GameUpdate

Spec == Init /\ [][Next]_vars

---------------------------------------------------------------------------
\* The demonstration program (specification SpecMain).  A run of it is a
\* record: the Dino object, the browser, the calls of the last statement,
\* the keys sent, the place in the program and the calls of end made.

Proc ==
    [dino |-> dino, web |-> web, trace |-> trace, keys |-> keys,
     pc |-> pc, ends |-> ends, last |-> last]

MachineOf(p, f, i) ==
    [dino |-> p.dino, web |-> p.web, trace |-> <<>>, keys |-> p.keys,
     exc |-> "none", ret |-> RetNone, fuel |-> f, intr |-> i]

\* 10*[dino.jump] + [dino.duck, dino.cancelJump]
ChoiceList ==
    [i \in 1..(JumpWeight + 2) |->
        IF i <= JumpWeight THEN "jump"
        ELSE IF i = JumpWeight + 1 THEN "duck" ELSE "cancelJump"]

Choices == {ChoiceList[i] : i \in DOMAIN ChoiceList}

\* random.choice(...)(): the chosen method, called without arguments.
Act(m, c) ==
    CASE c = "jump" -> jump(m)
      [] c = "duck" -> duck(m, None)
      [] c = "cancelJump" -> cancelJump(m)

\* dino = Dino().start(), outside the try: an exception ends the program.
RunStart(p, f, i) ==
    Only({ [p EXCEPT !.dino = n.dino, !.web = n.web, !.trace = n.trace,
                     !.keys = n.keys,
                     !.pc = IF Running(n) THEN "loop" ELSE "aborted",
                     !.last = [op |-> "start", delay |-> None, exc |-> n.exc,
                               ret |-> n.ret,
                               at |-> IF Running(n) THEN "" ELSE "start"]]
           : n \in {start(MachineOf(p, f, i), None)} })

\* except: dino.end()
Handler(m) == IF Running(m) THEN m ELSE end([m EXCEPT !.exc = "none"])

\* One turn of the loop: the chosen call, time.sleep(0.6), and the handler
\* when either raised.
RunIteration(p, c, f, i) ==
    Only({ [p EXCEPT !.dino = h.dino, !.web = h.web, !.trace = h.trace,
                     !.keys = h.keys,
                     !.pc = IF Running(w) THEN "loop" ELSE "done",
                     !.ends = IF Running(w) THEN @ ELSE @ + 1,
                     !.last = [op |-> c, delay |-> None, exc |-> w.exc,
                               ret |-> w.ret,
                               at |-> IF ~Running(a) THEN "action"
                                      ELSE IF ~Running(w) THEN "pause" ELSE ""]]
           : <<a, w, h>> \in
               { <<a1, w1, Handler(w1)>> :
                   <<a1, w1>> \in { <<a0, Sleep(a0, LoopDelay)>> :
                                       a0 \in {Act(MachineOf(p, f, i), c)} } } })

Install(q) ==
    /\ dino' = q.dino
    /\ web' = q.web
    /\ trace' = q.trace
    /\ keys' = q.keys
    /\ pc' = q.pc
    /\ ends' = q.ends
    /\ last' = q.last

InitMain ==
    /\ ctor = [driver |-> None, url |-> None, mute |-> TRUE]
    /\ dino = __init__(None, None, TRUE)
    /\ web = NoBrowser
    /\ trace = <<>>
    /\ keys = <<>>
    /\ last = NoCall
    /\ calls = 0
    /\ pc = "main"
    /\ iter = 0
    /\ ends = 0
    /\ choices = <<>>
    /\ twin = None

MainStart ==
    /\ pc = "main"
    /\ \E f \in 0..MaxFuel, i \in 0..1 : Install(RunStart(Proc, f, i))
    /\ UNCHANGED <<ctor, calls, iter, choices, twin>>

MainIteration ==
    /\ pc = "loop"
    /\ iter < MaxIter
    /\ \E c \in Choices, f \in 0..4, i \in 0..2 :
          /\ Install(RunIteration(Proc, c, f, i))
          /\ choices' = Append(choices, c)
    /\ iter' = iter + 1
    /\ UNCHANGED <<ctor, calls, twin>>

NextMain == MainStart \/ MainIteration \/ GameUpdate

SpecMain == InitMain /\ [][NextMain]_vars

---------------------------------------------------------------------------
\* Two runs of the demonstration program side by side (specification
\* SpecTwin): the same random choices in both, the game of each page moving
\* on by itself.  The browser answers every call and no interrupt arrives, so
\* that the runs differ in nothing but their games.

InitTwin ==
    /\ ctor = [driver |-> None, url |-> None, mute |-> TRUE]
    /\ dino = __init__(None, None, TRUE)
    /\ web = NoBrowser
    /\ trace = <<>>
    /\ keys = <<>>
    /\ last = NoCall
    /\ calls = 0
    /\ pc = "main"
    /\ iter = 0
    /\ ends = 0
    /\ choices = <<>>
    /\ twin = [dino |-> __init__(None, None, TRUE), web |-> NoBrowser,
               trace |-> <<>>, keys |-> <<>>, pc |-> "main", ends |-> 0,
               last |-> NoCall]

TwinStart ==
    /\ pc = "main"
    /\ Install(RunStart(Proc, MaxFuel, 0))
    /\ twin' = RunStart(twin, MaxFuel, 0)
    /\ UNCHANGED <<ctor, calls, iter, choices>>

TwinIteration ==
    /\ pc = "loop" \/ twin.pc = "loop"
    /\ iter < MaxIter
    /\ \E c \in Choices :
          /\ Install(IF pc = "loop" THEN RunIteration(Proc, c, MaxFuel, 0) ELSE Proc)
          /\ twin' = IF twin.pc = "loop"
                     THEN RunIteration(twin, c, MaxFuel, 0) ELSE twin
          /\ choices' = Append(choices, c)
    /\ iter' = iter + 1
    /\ UNCHANGED <<ctor, calls>>

TwinGameUpdate ==
    /\ twin.web.browser = "open"
    /\ twin.web.page # "blank"
    /\ \E g \in GameStates \ {twin.web.game} : twin' = [twin EXCEPT !.web.game = g]
    /\ UNCHANGED <<ctor, dino, web, trace, keys, last, calls, pc, iter, ends, choices>>

NextTwin == TwinStart \/ TwinIteration \/ GameUpdate \/ TwinGameUpdate

SpecTwin == InitTwin /\ [][NextTwin]_vars

---------------------------------------------------------------------------
\* Properties.

\* The step is a call of a method on the Dino object.
IsCall == calls' = calls + 1

Count(t, k) == Cardinality({i \in DOMAIN t : t[i].k = k})

\* The value of a digit, by its place among the digits.
DigitChars == <<"0", "1", "2", "3", "4", "5", "6", "7", "8", "9">>

ValueOf(c) == CHOOSE v \in 0..9 : DigitChars[v + 1] = c

RECURSIVE Pow10(_)
Pow10(n) == IF n = 0 THEN 1 ELSE 10 * Pow10(n - 1)

RECURSIVE Sum(_, _)
Sum(f, S) == IF S = {} THEN 0 ELSE LET x == CHOOSE y \in S : TRUE
                                   IN  f[x] + Sum(f, S \ {x})

\* The integer whose decimal digits are ds, in order.
DecimalValue(ds) ==
    Sum([i \in DOMAIN ds |-> ValueOf(ds[i]) * Pow10(Len(ds) - i)], DOMAIN ds)

\* C3: whenever the browser answers the script of the score accessor, score
\* returns the integer whose decimal digits are the distance meter's digits,
\* for every digit sequence (the empty one included), and does not raise.
C3_ScoreReturnsTheScore ==
    [][IsCall /\ last'.op = "score" /\ Len(trace') = 1 /\ trace'[1].ok
         /\ web.page # "blank"
       => /\ last'.exc = "none"
          /\ last'.ret.t = "int"
          /\ last'.ret.i = DecimalValue(web.game.digits)]_vars

\* C8: end() never raises, calls close on the driver at most once and leaves
\* every field of the Dino object unchanged, in any state of the object.
C8_EndNeverRaises ==
    [][IsCall /\ last'.op = "end"
       => /\ last'.exc = "none"
          /\ dino' = dino
          /\ Count(trace', "close") <= 1
          /\ Len(trace') = Count(trace', "close")]_vars

\* end() on an object whose browser is already closed: close raised and the
\* exception was swallowed.
C8_Witness ==
    /\ last.op = "end"
    /\ dino._driver # None
    /\ dino.body # None
    /\ web.browser = "closed"
    /\ Len(trace) = 1
    /\ ~trace[1].ok

AfterLaunch == SelectSeq(trace, LAMBDA e : e.k # "launch")

\* C5: a start() that returns normally has navigated to the configured URL,
\* assigned the canvas id, registered Shift (16) as a DUCK key, read the game
\* configuration, located body and canvas, then sent exactly one SPACE and
\* waited the delay, in this order, and returns the Dino object itself.
C5_StartOrder ==
    last.op = "start" /\ last.exc = "none" =>
        /\ Count(trace, "launch") <= 1
        /\ Count(trace, "launch") = 1 => trace[1].k = "launch"
        /\ Len(AfterLaunch) = 9
        /\ \A j \in DOMAIN trace : trace[j].ok
        /\ AfterLaunch[1].k = "get"
        /\ AfterLaunch[1].a = IF ctor.url = None THEN "chrome://dino/" ELSE ctor.url[1]
        /\ AfterLaunch[2].k = "script"
        /\ AfterLaunch[2].a = CanvasIdScript
        /\ AfterLaunch[3].k = "script"
        /\ AfterLaunch[3].a = DuckKeysScript
        /\ AfterLaunch[5].k = "script"
        /\ AfterLaunch[5].a = "return Runner.config"
        /\ AfterLaunch[6].k = "find"
        /\ AfterLaunch[6].a = "body"
        /\ AfterLaunch[7].k = "find"
        /\ AfterLaunch[7].a = "runner-canvas"
        /\ AfterLaunch[8].k = "send_keys"
        /\ AfterLaunch[8].a = "SPACE"
        /\ AfterLaunch[9].k = "sleep"
        /\ AfterLaunch[9].n = IF last.delay = None THEN 3000 ELSE last.delay[1]
        /\ Count(trace, "send_keys") + Count(trace, "key_down") + Count(trace, "key_up") = 1
        /\ web.page = AfterLaunch[1].a
        /\ web.canvasId = "runner-canvas"
        /\ 16 \in web.duckKeys
        /\ dino.gameConfig # None
        /\ dino.body # None
        /\ dino.canvas # None
        /\ last.ret = RetStr("self")

\* start() has returned on an object built with an alternative url and no
\* driver: the browser was launched, then the steps were taken.
C5_Witness ==
    /\ last.op = "start"
    /\ last.exc = "none"
    /\ ctor.url # None
    /\ ctor.driver = None
    /\ Count(trace, "launch") = 1

SimpleOps ==
    {"jump", "cancelJump", "pause", "resume", "getProperty", "crashed",
     "playing", "score", "speed", "image", "obstacles", "tRex"}

ShiftEvents == SelectSeq(keys, LAMBDA e : e.a = "SHIFT")

\* The calls of the last method other than the scripts.
NoScripts == SelectSeq(trace, LAMBDA e : e.k # "script")

\* C6: a duck that returns normally has sent one Shift key-down, waited the
\* delay (0.5 s when omitted) and sent one Shift key-up, so Shift is not held
\* when it returns, and key-down and key-up strictly alternate over any
\* sequence of duck calls.
C6_ShiftAlternates ==
    /\ \A j \in DOMAIN ShiftEvents :
          ShiftEvents[j].k = IF j % 2 = 1 THEN "key_down" ELSE "key_up"
    /\ last.op = "duck" /\ last.exc = "none" =>
          /\ Len(NoScripts) = 3
          /\ NoScripts[1].k = "key_down"
          /\ NoScripts[2].k = "sleep"
          /\ NoScripts[2].n = IF last.delay = None THEN 500 ELSE last.delay[1]
          /\ NoScripts[3].k = "key_up"
          /\ ShiftEvents[Len(ShiftEvents)].k = "key_up"

\* C7 as stated: the loop is left only when the chosen action raised, and
\* then end() was called once and the browser is closed.
C7_OnlyActionsExit ==
    pc = "done" => last.at = "action" /\ ends = 1 /\ web.browser # "open"

\* C7, amended: the loop is left exactly when the chosen action or the
\* time.sleep(0.6) after it raises; then end() is called once, the browser is
\* closed and the program has terminated.  The state of the game never ends
\* the loop.  A start() that raises ends the program without a call of end
\* or close.
C7_ExitByException ==
    /\ pc \in {"main", "loop", "done", "aborted"}
    /\ pc = "done" =>
          /\ last.at \in {"action", "pause"}
          /\ last.exc # "none"
          /\ ends = 1
          /\ web.browser # "open"
          /\ ~ENABLED (MainStart \/ MainIteration)
    /\ pc = "loop" =>
          /\ last.exc = "none"
          /\ last.at = ""
          /\ ends = 0
          /\ Count(trace, "close") = 0
          /\ iter < MaxIter => ENABLED MainIteration
    /\ pc = "aborted" =>
          /\ last.op = "start"
          /\ last.exc # "none"
          /\ ends = 0
          /\ Count(trace, "close") = 0
          /\ web.launched = 1
          /\ last.exc = "KeyboardInterrupt" => web.browser = "open"
          /\ ~ENABLED (MainStart \/ MainIteration)

\* The loop was left in its second turn or later by a keyboard interrupt
\* during time.sleep(0.6), with the game crashed: end() ran once.
C7_Witness ==
    /\ pc = "done"
    /\ iter >= 2
    /\ last.at = "pause"
    /\ last.exc = "KeyboardInterrupt"
    /\ web.game.crashed
    /\ ends = 1
    /\ Count(trace, "close") = 1

\* C4: the key events the demonstration loop sends are determined by the
\* random choices alone: two runs with the same choices send the same keys,
\* whatever the games of their pages do.
C4_SameChoicesSameKeys == keys = twin.keys

====
